---- MODULE Spec2Model ----
(***************************************************************************)
(* Hydraulic precalculation of a district heating network                  *)
(* (topotherm/precalculation_hydraulic.py).                                *)
(*                                                                         *)
(* The functions of the module are pure numeric functions over binary      *)
(* floating point.  Numbers are modelled as binary floating-point values   *)
(* with a mantissa of Precision bits, rounded to nearest, ties to even,    *)
(* after every arithmetic operation, as IEEE-754 does with 53 bits.  The   *)
(* exponent is not bounded (no overflow, no underflow).  A number carries  *)
(* the flag np: whether it is a numpy scalar (division by zero yields      *)
(* nan/inf) or a Python float (division by zero raises).                   *)
(***************************************************************************)
EXTENDS Integers, Sequences, FiniteSets, TLC

VARIABLES
    regime,      \* control curve: the four set points of the temperature regime
    curve,       \* control curve: the points (ambient, supply) evaluated so far
    settings,    \* topotherm.settings: the records Water, Ground and Piping
    conv,        \* converters: the inputs of a round trip, then its results
    resistance,  \* thermal resistance: the inputs of a call, then its result
    fsolve,      \* scipy.optimize.fsolve on vel_calculation: inputs -> [x, ier]
    linregress,  \* scipy.stats.linregress: the fits computed so far, inputs -> fit
    pc,          \* "idle", or "sweep": inside regression_thermal_capacity's loop
    call,        \* the arguments of the running (or last) regression_thermal_capacity
    velocity_max,    \* its local array
    pending,         \* the catalog indices its loop has not reached yet
    solved,          \* the indices it has solved, in order (bookkeeping)
    thermal_capacity,    \* the caller's mapping: what regression_thermal_capacity returned
    heat_losses,         \* the caller's mapping: what regression_heat_losses returned
    history              \* every (arguments, result) of the two regressions, and
                         \* whether a call was repeated (bookkeeping)

pureVars == <<regime, curve, conv, resistance>>

regressionVars ==
    <<fsolve, linregress, pc, call, velocity_max, pending, solved,
      thermal_capacity, heat_losses, history>>

vars == <<pureVars, settings, regressionVars>>

Water == settings.Water

Ground == settings.Ground

Piping == settings.Piping

\* Mantissa bits of the floating-point model (binary64 has 53).
Precision == 4

Abs(n) == IF n < 0 THEN -n ELSE n

Sign(n) == IF n < 0 THEN -1 ELSE IF n = 0 THEN 0 ELSE 1

Min2(a, b) == IF a <= b THEN a ELSE b

RECURSIVE Pow2(_)
Pow2(n) == IF n <= 0 THEN 1 ELSE 2 * Pow2(n - 1)

----------------------------------------------------------------------------
(* Floating-point values.  k = "num": the value m * 2^e, m odd or m = e = 0. *)
(* Other kinds: "nan", "inf", "ninf", and a raised "ZeroDivisionError".     *)

Special(kind, isnp) == [k |-> kind, m |-> 0, e |-> 0, np |-> isnp]

RECURSIVE Normal(_, _, _)
Normal(m, e, isnp) ==
    IF m = 0 THEN [k |-> "num", m |-> 0, e |-> 0, np |-> isnp]
    ELSE IF m % 2 = 0 THEN Normal(m \div 2, e + 1, isnp)
    ELSE [k |-> "num", m |-> m, e |-> e, np |-> isnp]

\* Number of low bits of the natural a that do not fit in Precision bits.
RECURSIVE Excess(_)
Excess(a) == IF a < Pow2(Precision) THEN 0 ELSE 1 + Excess(a \div 2)

\* Round s * a * 2^e (a >= 0, s the sign) to Precision bits: nearest, ties to even.
RoundNearestEven(s, a, e, isnp) ==
    LET x == Excess(a)
        q == a \div Pow2(x)
        r == a % Pow2(x)
        half == Pow2(x - 1)
        up == x > 0 /\ (r > half \/ (r = half /\ q % 2 = 1))
    IN  Normal(s * (IF up THEN q + 1 ELSE q), e + x, isnp)

Float(m, e) == Normal(m, e, FALSE)

NpFloat(m, e) == Normal(m, e, TRUE)

IsNum(x) == x.k = "num"

IsError(x) == x.k = "ZeroDivisionError"

\* x < y, x <= y, x = y on numbers, as the comparison operators of floats:
\* every comparison with nan is false.
Cmp(x, y) ==
    LET e == Min2(x.e, y.e)
    IN  Sign(x.m * Pow2(x.e - e) - y.m * Pow2(y.e - e))

Ord(x) == IF x.k = "inf" THEN 1 ELSE IF x.k = "ninf" THEN -1 ELSE 0

FLess(x, y) ==
    /\ x.k \in {"num", "inf", "ninf"} /\ y.k \in {"num", "inf", "ninf"}
    /\ IF IsNum(x) /\ IsNum(y) THEN Cmp(x, y) < 0 ELSE Ord(x) < Ord(y)

FEq(x, y) ==
    /\ x.k \in {"num", "inf", "ninf"} /\ y.k \in {"num", "inf", "ninf"}
    /\ IF IsNum(x) /\ IsNum(y) THEN Cmp(x, y) = 0 ELSE x.k = y.k

FLeq(x, y) == FLess(x, y) \/ FEq(x, y)

\* x - y
FSub(x, y) ==
    LET isnp == x.np \/ y.np IN
    IF IsError(x) THEN x
    ELSE IF IsError(y) THEN y
    ELSE IF x.k = "nan" \/ y.k = "nan" THEN Special("nan", isnp)
    ELSE IF ~IsNum(x) /\ ~IsNum(y)
         THEN IF x.k = y.k THEN Special("nan", isnp) ELSE Special(x.k, isnp)
    ELSE IF ~IsNum(x) THEN Special(x.k, isnp)
    ELSE IF ~IsNum(y) THEN Special(IF y.k = "inf" THEN "ninf" ELSE "inf", isnp)
    ELSE LET e == Min2(x.e, y.e)
             d == x.m * Pow2(x.e - e) - y.m * Pow2(y.e - e)
         IN  RoundNearestEven(Sign(d), Abs(d), e, isnp)

\* x * y
FMul(x, y) ==
    LET isnp == x.np \/ y.np IN
    IF IsError(x) THEN x
    ELSE IF IsError(y) THEN y
    ELSE IF x.k = "nan" \/ y.k = "nan" THEN Special("nan", isnp)
    ELSE IF ~IsNum(x) \/ ~IsNum(y)
         THEN LET s == (IF IsNum(x) THEN Sign(x.m) ELSE Ord(x))
                       * (IF IsNum(y) THEN Sign(y.m) ELSE Ord(y))
              IN  Special(IF s = 0 THEN "nan" ELSE IF s > 0 THEN "inf" ELSE "ninf", isnp)
    ELSE RoundNearestEven(Sign(x.m) * Sign(y.m), Abs(x.m) * Abs(y.m), x.e + y.e, isnp)

\* x / y.  A zero divisor raises ZeroDivisionError on Python floats and yields
\* nan or a signed infinity (with a RuntimeWarning) when an operand is numpy's.
FDiv(x, y) ==
    LET isnp == x.np \/ y.np IN
    IF IsError(x) THEN x
    ELSE IF IsError(y) THEN y
    ELSE IF x.k = "nan" \/ y.k = "nan" THEN Special("nan", isnp)
    ELSE IF ~IsNum(x) /\ ~IsNum(y) THEN Special("nan", isnp)
    ELSE IF ~IsNum(x)
         THEN Special(IF Ord(x) * (IF y.m < 0 THEN -1 ELSE 1) > 0 THEN "inf" ELSE "ninf", isnp)
    ELSE IF ~IsNum(y) THEN Normal(0, 0, isnp)
    ELSE IF y.m = 0
         THEN IF ~isnp THEN Special("ZeroDivisionError", FALSE)
              ELSE IF x.m = 0 THEN Special("nan", TRUE)
              ELSE Special(IF x.m > 0 THEN "inf" ELSE "ninf", TRUE)
    ELSE LET s == 2 * Precision + 2
             n == Abs(x.m) * Pow2(s)
             q == n \div Abs(y.m)
             sticky == IF n % Abs(y.m) = 0 THEN 0 ELSE 1
         IN  RoundNearestEven(Sign(x.m) * Sign(y.m), 2 * q + sticky,
                              x.e - y.e - s - 1, isnp)

----------------------------------------------------------------------------
(* Settings (topotherm.settings), read by the functions as module globals.   *)

\* A literal n * 2^e of the source, rounded as the parser rounds it.
Lit(n, e) == RoundNearestEven(Sign(n), Abs(n), e, FALSE)

\* Water: density 977.76 kg/m3, dynamic viscosity 4.04e-4 Pa s, heat capacity
\* 4.18e3 J/(kg K); and a second fluid.
WaterSettings ==
    {[density |-> Lit(978, 0), dynamic_viscosity |-> Lit(13, 0 - 15),
      heat_capacity_cp |-> Lit(4180, 0)],
     [density |-> Lit(1000, 0), dynamic_viscosity |-> Lit(1, 0 - 10),
      heat_capacity_cp |-> Lit(3300, 0)]}

GroundSettings == [thermal_conductivity |-> Lit(19, 0 - 3)]

\* The catalog: diameters 0.05, 0.10, 0.15 m (as 51/1024, 102/1024, 154/1024),
\* cost 50, 80, 120 per metre, outer/inner ratio 1.5, roughness 1e-3 m,
\* 150 Pa/m, conductivity of the insulation 0.024 W/(m K).
PipingSettings ==
    [diameter |-> <<Lit(51, 0 - 10), Lit(102, 0 - 10), Lit(154, 0 - 10)>>,
     number_diameter |-> 3,
     cost |-> <<Lit(50, 0), Lit(80, 0), Lit(120, 0)>>,
     ratio |-> Lit(3, 0 - 1),
     roughness |-> Lit(1, 0 - 10),
     max_pr_loss |-> Lit(150, 0),
     thermal_conductivity |-> Lit(3, 0 - 7)]

SettingsChoices ==
    {[Water |-> w, Ground |-> GroundSettings, Piping |-> PipingSettings] :
        w \in WaterSettings}

DefaultSettings == CHOOSE c \in SettingsChoices : c.Water.density = Lit(978, 0)

\* No call made yet.
NoCall == [fn |-> "none"]

\* Python's None: no mapping returned yet.
None == [none |-> TRUE]

\* The regressions at rest, in the specifications of the other functions.
RegressionsIdle ==
    /\ fsolve = <<>> /\ linregress = [cost |-> <<>>, loss |-> <<>>]
    /\ pc = "idle" /\ call = None /\ velocity_max = <<>> /\ pending = {}
    /\ solved = <<>> /\ thermal_capacity = None /\ heat_losses = None
    /\ history = [capacity |-> {}, losses |-> {}, repeated |-> FALSE]

----------------------------------------------------------------------------
(* Control curve: determine_feed_line_temp.                                 *)

determine_feed_line_temp_or(ambient_temperature, temp_sup_high, temp_sup_low, temp_turn_high, temp_turn_low) ==
    IF FLess(ambient_temperature, temp_turn_high) THEN temp_sup_high
    ELSE IF FLeq(temp_turn_high, ambient_temperature)
            \/ FLeq(ambient_temperature, temp_turn_low)
         THEN FSub(temp_sup_high,
                   FMul(FDiv(FSub(ambient_temperature, temp_turn_high),
                             FSub(temp_turn_low, temp_turn_high)),
                        FSub(temp_sup_high, temp_sup_low)))
    ELSE temp_sup_low

determine_feed_line_temp(ambient_temperature, temp_sup_high, temp_sup_low, temp_turn_high, temp_turn_low) ==
    IF FLess(ambient_temperature, temp_turn_high) THEN temp_sup_high
    ELSE IF FLeq(temp_turn_high, ambient_temperature)
            /\ FLeq(ambient_temperature, temp_turn_low)
         THEN FSub(temp_sup_high,
                   FMul(FDiv(FSub(ambient_temperature, temp_turn_high),
                             FSub(temp_turn_low, temp_turn_high)),
                        FSub(temp_sup_high, temp_sup_low)))
    ELSE temp_sup_low

\* Largest ambient temperature of the evaluated axis (the axis starts at -1).
MaxAmbient == 4

AmbientAxis == (0 - 1) .. MaxAmbient

\* Supply temperatures: 12, 8, 0.75, 0.25.
SupplyTemps == {Float(12, 0), Float(8, 0), Float(3, 0 - 2), Float(1, 0 - 2)}

TurnTemps == {Float(0, 0), Float(1, 0), Float(3, 0)}

Regimes ==
    [sh : SupplyTemps, sl : SupplyTemps, th : TurnTemps, tl : TurnTemps,
     np : BOOLEAN]

\* The ambient temperature t of the axis, a numpy scalar when the regime's
\* ambient series is a numpy array.
Ambient(t) == Normal(t, 0, regime.np)

InitCurve ==
    /\ regime \in Regimes /\ curve = {}
    /\ settings = DefaultSettings /\ conv = NoCall /\ resistance = NoCall
    /\ RegressionsIdle

\* One call determine_feed_line_temp(t, ...); the caller keeps the point.
Evaluate(t) ==
    /\ curve' = curve \cup
         {[t |-> t,
           out |-> determine_feed_line_temp(Ambient(t), regime.sh, regime.sl,
                                            regime.th, regime.tl)]}
    /\ UNCHANGED <<regime, settings, conv, resistance, regressionVars>>

NextCurve == \E t \in AmbientAxis : Evaluate(t)

SpecCurve == InitCurve /\ [][NextCurve]_vars

\* C1: with temp_turn_high <= temp_turn_low, every call returns (raises
\* nothing), returns exactly temp_sup_high for T <= temp_turn_high and exactly
\* temp_sup_low for T >= temp_turn_low.
C1_BoundaryExact ==
    FLeq(regime.th, regime.tl) =>
        \A p \in curve :
            /\ ~IsError(p.out)
            /\ FLeq(Ambient(p.t), regime.th) => FEq(p.out, regime.sh)
            /\ FLeq(regime.tl, Ambient(p.t)) => FEq(p.out, regime.sl)

\* C9: with temp_turn_high <= temp_turn_low and temp_sup_high >= temp_sup_low
\* the curve is monotonic non-increasing over the whole axis: for T1 <= T2 the
\* result at T1 is >= the result at T2 (stated over the calls that return a
\* number).
C9_Monotonic ==
    FLeq(regime.th, regime.tl) /\ FLeq(regime.sl, regime.sh) =>
        \A p, q \in curve :
            IsNum(p.out) /\ IsNum(q.out) /\ p.t <= q.t => FLeq(q.out, p.out)

CurveComplete == {p.t : p \in curve} = AmbientAxis

\* C10 (as claimed): with temp_turn_high > temp_turn_low and temp_sup_high >
\* temp_sup_low no call raises and the curve over the axis is non-monotonic or
\* inverted: some T1 < T2 have result(T1) < result(T2).
C10_NonMonotonic ==
    FLess(regime.tl, regime.th) /\ FLess(regime.sl, regime.sh) /\ CurveComplete =>
        /\ \A p \in curve : ~IsError(p.out)
        /\ \E p, q \in curve : p.t < q.t /\ FLess(p.out, q.out)

\* C10 (amended): with temp_turn_high > temp_turn_low and temp_sup_high >
\* temp_sup_low no call raises, the interpolation branch is never taken, and the
\* curve is the step temp_sup_high for T < temp_turn_high, temp_sup_low from
\* temp_turn_high on: monotonic non-increasing, temp_turn_low ignored.
C10_StepCurve ==
    FLess(regime.tl, regime.th) /\ FLess(regime.sl, regime.sh) =>
        \A p \in curve :
            /\ ~IsError(p.out)
            /\ p.out = IF FLess(Ambient(p.t), regime.th) THEN regime.sh ELSE regime.sl
            /\ \A q \in curve : p.t <= q.t => FLeq(q.out, p.out)

\* A complete curve of an inverted regime with a point between the turning
\* points and points on both steps.
C10_Witness ==
    /\ FLess(regime.tl, regime.th) /\ FLess(regime.sl, regime.sh)
    /\ CurveComplete
    /\ \E p, q, r \in curve :
        /\ FLess(regime.tl, Ambient(p.t)) /\ FLess(Ambient(p.t), regime.th)
        /\ p.out = regime.sh
        /\ FLess(regime.th, Ambient(q.t)) /\ q.out = regime.sl
        /\ FEq(Ambient(r.t), regime.th) /\ r.out = regime.sl

----------------------------------------------------------------------------
(* Flow/capacity converters: mass_flow, pipe_capacity, capacity_to_diameter. *)

\* np.pi, rounded to the precision of the model (3217/1024 = 3.14160...).
Pi == RoundNearestEven(1, 3217, 0 - 10, FALSE)

mass_flow(velocity, diameter) ==
    FMul(FMul(FMul(Water.density, velocity), FDiv(Pi, Float(4, 0))),
         FMul(diameter, diameter))

pipe_capacity_no_cp(mass_flow_, temperature_supply, temperature_return) ==
    FMul(mass_flow_, FSub(temperature_supply, temperature_return))

pipe_capacity(mass_flow_, temperature_supply, temperature_return) ==
    FMul(FMul(mass_flow_, Water.heat_capacity_cp),
         FSub(temperature_supply, temperature_return))

capacity_to_diameter(pipe_capacity_, temperature_supply, temperature_return) ==
    FDiv(pipe_capacity_,
         FMul(Water.heat_capacity_cp, FSub(temperature_supply, temperature_return)))

\* Mass flows and capacities of the round trips: k/4 for k in 0..MaxQuarter,
\* and 16 times that; Python floats and numpy scalars.
MaxQuarter == 13

ConvValues ==
    {Normal(k, 0 - 2, b) : k \in 0 .. MaxQuarter, b \in BOOLEAN}
    \cup {Normal(k, 2, b) : k \in 1 .. MaxQuarter, b \in BOOLEAN}

ConvTemps == {Float(8, 0), Float(5, 0), Float(11, 0 - 1)}

ConvWater ==
    WaterSettings \cup
        {[density |-> Float(1, 0), dynamic_viscosity |-> Float(1, 0),
          heat_capacity_cp |-> Float(3, 0)]}

InitConverters ==
    /\ settings \in
         {[Water |-> w, Ground |-> GroundSettings, Piping |-> PipingSettings] :
             w \in ConvWater}
    /\ conv \in [fn : {"none"}, x : ConvValues, ts : ConvTemps, tr : ConvTemps]
    /\ regime = CHOOSE r \in Regimes : TRUE
    /\ curve = {} /\ resistance = NoCall
    /\ RegressionsIdle

\* capacity_to_diameter(pipe_capacity(m, Ts, Tr), Ts, Tr)
MassRoundTrip ==
    /\ conv.fn = "none"
    /\ conv' = [fn |-> "pipe_capacity", x |-> conv.x, ts |-> conv.ts, tr |-> conv.tr,
                mid |-> pipe_capacity(conv.x, conv.ts, conv.tr),
                out |-> capacity_to_diameter(
                            pipe_capacity(conv.x, conv.ts, conv.tr), conv.ts, conv.tr)]
    /\ UNCHANGED <<regime, curve, settings, resistance, regressionVars>>

\* pipe_capacity(capacity_to_diameter(P, Ts, Tr), Ts, Tr); the first call of
\* the round trip is capacity_to_diameter(P, Ts, Tr), its result is mid.  The
\* second call is not made when the first raises.
CapacityRoundTrip ==
    /\ conv.fn = "none"
    /\ conv' = [fn |-> "capacity_to_diameter", x |-> conv.x, ts |-> conv.ts,
                tr |-> conv.tr,
                mid |-> capacity_to_diameter(conv.x, conv.ts, conv.tr),
                out |-> pipe_capacity(
                            capacity_to_diameter(conv.x, conv.ts, conv.tr),
                            conv.ts, conv.tr)]
    /\ UNCHANGED <<regime, curve, settings, resistance, regressionVars>>

NextConverters == MassRoundTrip \/ CapacityRoundTrip

SpecConverters == InitConverters /\ [][NextConverters]_vars

\* |a - b| <= n * 2^(-Precision) * |b|: a equals b up to n rounding errors.
WithinRoundings(a, b, n) ==
    /\ IsNum(a) /\ IsNum(b)
    /\ LET e == Min2(a.e, b.e)
           A == a.m * Pow2(a.e - e)
           B == b.m * Pow2(b.e - e)
       IN  Abs(A - B) * Pow2(Precision) <= n * Abs(B)

\* C5 (as claimed): for T_supply != T_return the two conversions are exact
\* inverses: either round trip returns the value it started from.
C5_ExactInverses ==
    conv.fn # "none" /\ ~FEq(conv.ts, conv.tr) => FEq(conv.out, conv.x)

\* C5 (amended): for T_supply != T_return either round trip returns the value
\* it started from up to floating-point rounding: a number within 5 rounding
\* errors (5 * 2^-Precision, relative) of it, and exactly it when it is zero.
C5_InversesUpToRounding ==
    conv.fn # "none" /\ ~FEq(conv.ts, conv.tr) =>
        WithinRoundings(conv.out, conv.x, 5)

\* A round trip with T_supply != T_return that does not return the exact value.
C5_Witness ==
    /\ conv.fn = "pipe_capacity" /\ ~FEq(conv.ts, conv.tr)
    /\ IsNum(conv.out) /\ ~FEq(conv.out, conv.x)

\* C6: with T_supply == T_return capacity_to_diameter raises (a DomainError)
\* for every capacity, and returns no value.
C6_RaisesOnZeroDifferential ==
    conv.fn = "capacity_to_diameter" /\ FEq(conv.ts, conv.tr) => IsError(conv.mid)

----------------------------------------------------------------------------
(* Thermal resistance of a buried insulated pipe.                            *)
(* np.log(a) / (2 * np.pi * k) is not computed: the term is kept as the pair *)
(* (a, k) that determines it.  np.log raises nothing: log(0) is -inf and the *)
(* log of a negative number is nan, each with a RuntimeWarning.              *)

LogTerm(a, conductivity) == [log |-> a, k |-> conductivity]

\* The sign of a term: of np.log(a), the conductivity being positive.
\* "nan" when a is nan or negative.
TermSign(t) ==
    IF t.log.k = "nan" \/ t.log.k = "ninf" THEN "nan"
    ELSE IF t.log.k = "inf" THEN "positive"
    ELSE IF t.log.m < 0 THEN "nan"
    ELSE IF t.log.m = 0 THEN "ninf"
    ELSE LET c == Cmp(t.log, Float(1, 0))
         IN  IF c < 0 THEN "negative" ELSE IF c = 0 THEN "zero" ELSE "positive"

thermal_resistance(diameter, diameter_ratio, depth) ==
    LET outer_diameter == FMul(diameter, diameter_ratio)
        a == FDiv(FMul(Float(4, 0), depth), outer_diameter)
    IN  [raised |-> IF IsError(a) THEN a.k ELSE "none",
         thermal_resistance_ground |-> LogTerm(a, Ground.thermal_conductivity),
         thermal_resistance_insulation |->
             LogTerm(diameter_ratio, Piping.thermal_conductivity)]

Diameters == {Normal(m, 0 - 2, b) : m \in {0, 1, 2, 4, 8}, b \in BOOLEAN}

Ratios == {Float(5, 0 - 2), Float(3, 0 - 1), Float(2, 0)}

Depths == {Float(0, 0), Float(1, 0 - 3), Float(1, 0 - 1), Float(3, 0 - 3), Float(1, 0), Float(2, 0)}

InitResistance ==
    /\ resistance \in
         [fn : {"none"}, diameter : Diameters, diameter_ratio : Ratios, depth : Depths]
    /\ regime = CHOOSE r \in Regimes : TRUE
    /\ curve = {} /\ settings = DefaultSettings /\ conv = NoCall
    /\ RegressionsIdle

ThermalResistance ==
    /\ resistance.fn = "none"
    /\ resistance' =
         [fn |-> "thermal_resistance", diameter |-> resistance.diameter,
          diameter_ratio |-> resistance.diameter_ratio, depth |-> resistance.depth,
          out |-> thermal_resistance(resistance.diameter, resistance.diameter_ratio,
                                     resistance.depth)]
    /\ UNCHANGED <<regime, curve, settings, conv, regressionVars>>

NextResistance == ThermalResistance

SpecResistance == InitResistance /\ [][NextResistance]_vars

\* C3: thermal_resistance raises (a DomainError) whenever
\* 4 * depth <= diameter * diameter_ratio; it returns no resistance then.
C3_RaisesOnShallowBurial ==
    /\ resistance.fn = "thermal_resistance"
    /\ FLeq(FMul(Float(4, 0), resistance.depth),
            FMul(resistance.diameter, resistance.diameter_ratio))
    => resistance.out.raised # "none"

----------------------------------------------------------------------------
(* Decimal numerals and np.round.  A numeral is a sign, an integer part and  *)
(* the digits after the point, without trailing zeros.  np.round rounds half *)
(* to even at the given number of decimals.                                  *)

RECURSIVE Pow(_, _)
Pow(b, n) == IF n <= 0 THEN 1 ELSE b * Pow(b, n - 1)

RECURSIVE StripZeros(_)
StripZeros(ds) ==
    IF ds # <<>> /\ ds[Len(ds)] = 0 THEN StripZeros(SubSeq(ds, 1, Len(ds) - 1))
    ELSE ds

\* The w low decimal digits of n.
RECURSIVE Digits(_, _)
Digits(n, w) == IF w = 0 THEN <<>> ELSE Append(Digits(n \div 10, w - 1), n % 10)

Dec(int, frac) == [k |-> "num", neg |-> FALSE, int |-> int, frac |-> frac]

\* The exact decimal expansion of a floating-point value.
ToDecimal(x) ==
    IF ~IsNum(x) THEN [k |-> x.k, neg |-> FALSE, int |-> 0, frac |-> <<>>]
    ELSE IF x.e >= 0
         THEN [k |-> "num", neg |-> x.m < 0, int |-> Abs(x.m) * Pow2(x.e), frac |-> <<>>]
    ELSE LET w == 0 - x.e
             n == Abs(x.m) * Pow(5, w)
         IN  [k |-> "num", neg |-> x.m < 0, int |-> n \div Pow(10, w),
              frac |-> StripZeros(Digits(n % Pow(10, w), w))]

\* The digits ds with one added in the last place.
RECURSIVE Increment(_)
Increment(ds) ==
    IF ds = <<>> THEN [digits |-> <<>>, carry |-> 1]
    ELSE IF ds[Len(ds)] < 9
         THEN [digits |-> [ds EXCEPT ![Len(ds)] = @ + 1], carry |-> 0]
    ELSE LET r == Increment(SubSeq(ds, 1, Len(ds) - 1))
         IN  [digits |-> Append(r.digits, 0), carry |-> r.carry]

np_round(x, decimals) ==
    IF x.k # "num" \/ Len(x.frac) <= decimals THEN x
    ELSE LET kept == SubSeq(x.frac, 1, decimals)
             first == x.frac[decimals + 1]
             more == Len(x.frac) > decimals + 1
             last == IF decimals = 0 THEN x.int % 10 ELSE kept[decimals]
             up == first > 5 \/ (first = 5 /\ (more \/ last % 2 = 1))
             inc == Increment(kept)
         IN  IF up THEN [x EXCEPT !.int = @ + inc.carry, !.frac = StripZeros(inc.digits)]
             ELSE [x EXCEPT !.frac = StripZeros(kept)]

\* The number of decimals of a numeral.
Decimals(x) == Len(x.frac)

----------------------------------------------------------------------------
(* Friction/velocity solver.  fsolve is scipy's: its result for the inputs   *)
(* of vel_calculation is the table fsolve, [x, ier]; ier = 1 is convergence. *)
(* Called without full_output, fsolve returns x whatever ier is (ier 2..5    *)
(* only issue a RuntimeWarning).                                             *)

max_flow_velocity(vel_init, diameter, roughness, max_spec_pressure_loss) ==
    fsolve[<<vel_init, diameter, roughness, max_spec_pressure_loss>>].x

V_INIT == Float(1, 0 - 1)

Catalog == 1 .. Piping.number_diameter

\* A value stored in a numpy array.
AsNp(x) == [x EXCEPT !.np = TRUE]

\* np.zeros(Piping.number_diameter)
Zeros == [i \in Catalog |-> NpFloat(0, 0)]

\* The inputs of the solve of diameter i.
SolveInputs(i) == <<V_INIT, Piping.diameter[i], Piping.roughness, Piping.max_pr_loss>>

Unconverged(i) == fsolve[SolveInputs(i)].ier # 1

\* The body of the loop: velocity_max[i] = max_flow_velocity(...).item()
sweep_step_fill_tail(velocity, i) ==
    [j \in DOMAIN velocity |->
        IF j >= i
        THEN AsNp(max_flow_velocity(V_INIT, Piping.diameter[i], Piping.roughness,
                                    Piping.max_pr_loss))
        ELSE velocity[j]]

sweep_step(velocity, i) ==
    [velocity EXCEPT
        ![i] = AsNp(max_flow_velocity(V_INIT, Piping.diameter[i], Piping.roughness,
                                      Piping.max_pr_loss))]

----------------------------------------------------------------------------
(* Heat-loss model.  np.exp is not computed: the heat loss is kept as the    *)
(* arguments that determine it.                                              *)

heat_loss_pipe(mass_flow_, length, temperature_in, thermal_resistance_pipe, ambient_temperature) ==
    [mass_flow |-> mass_flow_, length |-> length,
     heat_capacity_cp |-> Water.heat_capacity_cp,
     temp_diff_in |-> FSub(temperature_in, ambient_temperature),
     temperature_in |-> temperature_in,
     ambient_temperature |-> ambient_temperature,
     thermal_resistance_pipe |-> thermal_resistance_pipe]

----------------------------------------------------------------------------
(* Regression engine.                                                        *)

\* r['params'] of regression_thermal_capacity
capacity_params(regression) ==
    [a |-> np_round(regression.slope, 6),
     b |-> np_round(regression.intercept, 3),
     r2 |-> [rvalue |-> regression.rvalue, power |-> 2]]

\* The samples regression_thermal_capacity fits: power in kW, cost.
capacity_samples(velocity, t_supply, t_return) ==
    [x |-> [i \in Catalog |->
              FDiv(pipe_capacity(mass_flow(velocity[i], Piping.diameter[i]),
                                 t_supply, t_return),
                   Lit(1000, 0))],
     y |-> Piping.cost]

\* regression_thermal_capacity after its loop: the mapping r it returns, for
\* the fit `regression` of its samples.
capacity_result(velocity, t_supply, t_return, regression) ==
    LET mass_flow_max == [i \in Catalog |-> mass_flow(velocity[i], Piping.diameter[i])]
        power_flow_max ==
            [i \in Catalog |-> pipe_capacity(mass_flow_max[i], t_supply, t_return)]
    IN  [mass_flow_max |-> mass_flow_max,
         power_flow_max |-> power_flow_max,
         params |-> capacity_params(regression),
         power_flow_max_kW |->
             [i \in Catalog |->
                 np_round(ToDecimal(FDiv(power_flow_max[i], Lit(1000, 0))), 3)],
         power_flow_max_partload |-> 1]

\* factors of regression_heat_losses
heat_loss_factors_unrounded(regression) ==
    [b |-> regression.intercept,
     a |-> regression.slope,
     r2 |-> [rvalue |-> regression.rvalue, power |-> 2]]

heat_loss_factors(regression) ==
    [b |-> np_round(regression.intercept, 6),
     a |-> np_round(regression.slope, 10),
     r2 |-> [rvalue |-> regression.rvalue, power |-> 2]]

\* heat_loss of regression_heat_losses: depth 1 m, length 100 m.
heat_loss_array(t_supply, t_ambient, capacity) ==
    [i \in Catalog |->
        heat_loss_pipe(capacity.mass_flow_max[i], NpFloat(100, 0), t_supply,
                       thermal_resistance(AsNp(Piping.diameter[i]), Piping.ratio,
                                          NpFloat(1, 0)),
                       t_ambient)]

\* The samples regression_heat_losses fits: power in kW, heat loss in kW/m.
heat_loss_samples(t_supply, t_ambient, capacity) ==
    [x |-> [i \in Catalog |-> FDiv(capacity.power_flow_max[i], Lit(1000, 0))],
     y |-> [i \in Catalog |->
              [of |-> heat_loss_array(t_supply, t_ambient, capacity)[i],
               per |-> Lit(1000, 0)]]]

\* regression_heat_losses with maximal_power /= 1000 done in place.
regression_heat_losses_in_place(t_supply, t_ambient, capacity, regression) ==
    [r |-> [heat_loss |-> heat_loss_array(t_supply, t_ambient, capacity),
            params |-> heat_loss_factors(regression)],
     thermal_capacity |->
         [capacity EXCEPT
             !.power_flow_max =
                 [i \in Catalog |-> FDiv(capacity.power_flow_max[i], Lit(1000, 0))]]]

\* regression_heat_losses: the mapping r it returns, for the fit `regression`
\* of its samples, and the caller's mapping thermal_capacity as the call
\* leaves it.
regression_heat_losses(t_supply, t_ambient, capacity, regression) ==
    [r |-> [heat_loss |-> heat_loss_array(t_supply, t_ambient, capacity),
            params |-> heat_loss_factors(regression)],
     thermal_capacity |-> capacity]

\* Fits linregress may return: slope, intercept, rvalue.
LinregressResults ==
    {[slope |-> Dec(0, <<0, 8, 1, 2, 3, 4, 5, 6, 7, 8, 9, 0, 1, 2, 3>>),
      intercept |-> Dec(41, <<9, 8, 7, 6, 5, 4, 3, 2, 1>>),
      rvalue |-> Dec(0, <<9, 9>>)],
     [slope |-> Dec(0, <<0, 0, 0, 0, 0, 0, 1, 2, 3, 4, 5>>),
      intercept |-> Dec(0, <<0, 0, 0, 5>>),
      rvalue |-> Dec(0, <<9>>)]}

\* linregress is a function: the fit of samples fitted before is the same.
Fits(memo, samples, regression) ==
    samples \in DOMAIN memo => memo[samples] = regression

Remember(memo, samples, regression) ==
    IF samples \in DOMAIN memo THEN memo ELSE memo @@ (samples :> regression)

\* The velocity each diameter's solve converges to, and the behaviours of the
\* solver: every solve converges, or one stops unconverged at an iterate.
Roots == <<Lit(1, 0), Lit(3, 0 - 1), Lit(2, 0)>>

Iterate == Lit(3, 0 - 2)

SolverBehaviours(P) ==
    {[key \in {<<V_INIT, P.diameter[i], P.roughness, P.max_pr_loss>> :
                  i \in 1 .. P.number_diameter} |->
        LET i == CHOOSE j \in 1 .. P.number_diameter : P.diameter[j] = key[2]
        IN  IF i = bad THEN [x |-> Iterate, ier |-> 5] ELSE [x |-> Roots[i], ier |-> 1]] :
     bad \in 0 .. P.number_diameter}

SupplyArgs == {Lit(80, 0), Lit(70, 0)}

LossSupplyArgs == {Lit(80, 0)}

ReturnArgs == {Lit(50, 0)}

AmbientArgs == {Lit(0 - 10, 0)}

Init ==
    /\ settings = DefaultSettings
    /\ fsolve \in SolverBehaviours(settings.Piping)
    /\ linregress = [cost |-> <<>>, loss |-> <<>>]
    /\ pc = "idle" /\ call = None /\ velocity_max = <<>> /\ pending = {}
    /\ solved = <<>> /\ thermal_capacity = None /\ heat_losses = None
    /\ history = [capacity |-> {}, losses |-> {}, repeated |-> FALSE]
    /\ regime = CHOOSE r \in Regimes : TRUE
    /\ curve = {} /\ conv = NoCall /\ resistance = NoCall

\* regression_thermal_capacity(t_supply, t_return) is called: up to its loop.
RtcBegin(t_supply, t_return) ==
    /\ pc = "idle"
    /\ pc' = "sweep"
    /\ call' = [t_supply |-> t_supply, t_return |-> t_return]
    /\ velocity_max' = Zeros
    /\ pending' = Catalog
    /\ solved' = <<>>
    /\ UNCHANGED <<pureVars, settings, fsolve, linregress, thermal_capacity,
                   heat_losses, history>>

\* One iteration of the loop, for the diameter i.
RtcSolve(i) ==
    /\ pc = "sweep" /\ i \in pending
    /\ velocity_max' = sweep_step(velocity_max, i)
    /\ pending' = pending \ {i}
    /\ solved' = Append(solved, i)
    /\ UNCHANGED <<pureVars, settings, fsolve, linregress, pc, call,
                   thermal_capacity, heat_losses, history>>

\* The loop of the code: for i, diam in enumerate(Piping.diameter).
RtcSolveNext ==
    /\ pending # {}
    /\ RtcSolve(CHOOSE i \in pending : \A j \in pending : i <= j)

\* After the loop: the fit, the mapping, the return to the caller.
RtcReturn ==
    /\ pc = "sweep" /\ pending = {}
    /\ \E regression \in LinregressResults :
        LET samples == capacity_samples(velocity_max, call.t_supply, call.t_return)
            r == capacity_result(velocity_max, call.t_supply, call.t_return, regression)
        IN  /\ Fits(linregress.cost, samples, regression)
            /\ linregress' =
                 [linregress EXCEPT !.cost = Remember(@, samples, regression)]
            /\ thermal_capacity' = r
            /\ history' =
                 [history EXCEPT
                     !.capacity = @ \cup {[t_supply |-> call.t_supply,
                                           t_return |-> call.t_return, r |-> r]},
                     !.repeated = @ \/ \E h \in history.capacity :
                                          /\ h.t_supply = call.t_supply
                                          /\ h.t_return = call.t_return]
    /\ pc' = "idle"
    /\ UNCHANGED <<pureVars, settings, fsolve, call, velocity_max, pending, solved,
                   heat_losses>>

\* regression_heat_losses(t_supply, t_ambient, thermal_capacity), the caller
\* passing the mapping it holds.
Rhl(t_supply, t_ambient) ==
    /\ pc = "idle" /\ thermal_capacity # None
    /\ \E regression \in LinregressResults :
        LET samples == heat_loss_samples(t_supply, t_ambient, thermal_capacity)
            ret == regression_heat_losses(t_supply, t_ambient, thermal_capacity,
                                          regression)
        IN  /\ Fits(linregress.loss, samples, regression)
            /\ linregress' =
                 [linregress EXCEPT !.loss = Remember(@, samples, regression)]
            /\ heat_losses' = ret.r
            /\ thermal_capacity' = ret.thermal_capacity
            /\ history' =
                 [history EXCEPT
                     !.losses = @ \cup {[t_supply |-> t_supply, t_ambient |-> t_ambient,
                                         thermal_capacity |-> thermal_capacity,
                                         r |-> ret.r]},
                     !.repeated = @ \/ \E h \in history.losses :
                                          /\ h.t_supply = t_supply
                                          /\ h.t_ambient = t_ambient
                                          /\ h.thermal_capacity = thermal_capacity]
    /\ UNCHANGED <<pureVars, settings, fsolve, pc, call, velocity_max, pending, solved>>

Next ==
    \/ \E t_supply \in SupplyArgs, t_return \in ReturnArgs : RtcBegin(t_supply, t_return)
    \/ RtcSolveNext
    \/ RtcReturn
    \/ \E t_supply \in LossSupplyArgs, t_ambient \in AmbientArgs : Rhl(t_supply, t_ambient)

Spec == Init /\ [][Next]_vars

\* The sweep with the solves of the diameters taken in any order.
NextSweep ==
    \/ \E t_supply \in SupplyArgs, t_return \in ReturnArgs : RtcBegin(t_supply, t_return)
    \/ \E i \in pending : RtcSolve(i)
    \/ RtcReturn

SpecSweep == Init /\ [][NextSweep]_vars

\* A call of regression_thermal_capacity has returned its mapping.
Returned == pc = "idle" /\ solved # <<>>

\* C2: when the solve of a diameter does not converge, the call fails as a
\* whole: no diameter is solved after it and no mapping is returned.
C2_FailsAsAWhole ==
    \A n \in 1 .. Len(solved) :
        Unconverged(solved[n]) => n = Len(solved) /\ ~Returned

\* C4 (as claimed): both regressions return the slope 'a' rounded to 6
\* decimals and the intercept 'b' rounded to 3.
C4_SamePrecision ==
    /\ thermal_capacity # None =>
        Decimals(thermal_capacity.params.a) <= 6 /\ Decimals(thermal_capacity.params.b) <= 3
    /\ heat_losses # None =>
        Decimals(heat_losses.params.a) <= 6 /\ Decimals(heat_losses.params.b) <= 3

\* C4 (amended): regression_thermal_capacity returns the slope rounded to 6
\* decimals and the intercept to 3; regression_heat_losses returns the slope
\* rounded to 10 decimals and the intercept to 6.
C4_PrecisionPerRegression ==
    /\ thermal_capacity # None =>
        Decimals(thermal_capacity.params.a) <= 6 /\ Decimals(thermal_capacity.params.b) <= 3
    /\ heat_losses # None =>
        Decimals(heat_losses.params.a) <= 10 /\ Decimals(heat_losses.params.b) <= 6

\* Both regressions have returned, each coefficient with all the decimals its
\* rounding leaves.
C4_Witness ==
    /\ thermal_capacity # None /\ heat_losses # None
    /\ Decimals(thermal_capacity.params.a) = 6 /\ Decimals(thermal_capacity.params.b) = 3
    /\ Decimals(heat_losses.params.a) = 10 /\ Decimals(heat_losses.params.b) = 6

\* The loop run in the order of the catalog.
RECURSIVE SweepUpTo(_)
SweepUpTo(n) == IF n = 0 THEN Zeros ELSE sweep_step(SweepUpTo(n - 1), n)

SequentialSweep == SweepUpTo(Piping.number_diameter)

\* C7: in whatever order the diameters are solved, once all are solved the
\* velocity array is that of the sequential sweep, and the mapping returned
\* holds at each index the mass flow and the power computed from that
\* index's diameter.
C7_OrderIndependent ==
    /\ pc = "sweep" /\ pending = {} => velocity_max = SequentialSweep
    /\ Returned =>
        /\ velocity_max = SequentialSweep
        /\ \A i \in Catalog :
            /\ thermal_capacity.mass_flow_max[i]
                 = mass_flow(SequentialSweep[i], Piping.diameter[i])
            /\ thermal_capacity.power_flow_max[i]
                 = pipe_capacity(mass_flow(SequentialSweep[i], Piping.diameter[i]),
                                 call.t_supply, call.t_return)

\* A call has returned whose diameters were solved last to first.
C7_Witness ==
    /\ Returned /\ thermal_capacity # None
    /\ solved = [n \in Catalog |-> Piping.number_diameter + 1 - n]
    /\ \E i, j \in Catalog : velocity_max[i] # velocity_max[j]

\* Equal arguments gave equal results.
SameResults ==
    /\ \A g, h \in history.capacity :
        g.t_supply = h.t_supply /\ g.t_return = h.t_return => g.r = h.r
    /\ \A g, h \in history.losses :
        /\ g.t_supply = h.t_supply /\ g.t_ambient = h.t_ambient
        /\ g.thermal_capacity = h.thermal_capacity
        => g.r = h.r

\* C8: no call changes state: the settings never change, a call of
\* regression_heat_losses (a step from idle to idle) leaves the mapping passed
\* to it unchanged, and a call repeated with the same arguments returns an
\* equal result.
C8_NoStateChange ==
    /\ [][settings' = settings]_vars
    /\ [][pc = "idle" /\ pc' = "idle" => thermal_capacity' = thermal_capacity]_vars
    /\ []SameResults

\* Both regressions have returned and a call has been repeated.
C8_Witness ==
    /\ history.repeated /\ heat_losses # None
    /\ \E h \in history.losses : h.thermal_capacity = thermal_capacity
====
